---- MODULE Spec2Model ----
(***************************************************************************)
(* Model of checks/collector.py: the Collector of the monitoring agent.    *)
(* One cycle (Collector.run) is a sequence of steps, one per check group,  *)
(* per checks.d check and per emitter; Collector.stop may be called        *)
(* between any two steps (it is called from the process's signal handler). *)
(* Dictionaries are functions whose DOMAIN is the set of keys present.     *)
(***************************************************************************)
EXTENDS Integers, Sequences, FiniteSets, TLC

\* ------------------------------------------------------------ bounds
\* number of run() calls explored
MaxRuns == 2
\* virtual clock: time.time() ranges over 0..MaxTime
MaxTime == 2
\* most items (metrics, events, snapshots) one collaborator returns per call
MaxItems == 1
\* most checks.d checks handed to run() in checksd['initialized_checks']
MaxChecks == 2
\* most emitters configured
MaxEmitters == 2

\* ------------------------------------------------------------ values
None == "None"

\* agentConfig['metadata_interval'], in ticks of the virtual clock
metadata_interval == 1

\* ------------------------------------------------------------ dictionaries
EmptyDict == [k \in {} |-> None]

\* d[k] = v
Put(d, k, v) == [x \in (DOMAIN d) \cup {k} |-> IF x = k THEN v ELSE d[x]]

\* d.update(e)
Update(d, e) == [x \in (DOMAIN d) \cup (DOMAIN e) |-> IF x \in DOMAIN e THEN e[x] ELSE d[x]]

\* del d[k]
Del(d, k) == [x \in (DOMAIN d) \ {k} |-> d[x]]

\* d.get(k), None when the key is absent
Get(d, k) == IF k \in DOMAIN d THEN d[k] ELSE None

\* the items a collaborator named src returns: n records tagged with src
Items(src, n) == [i \in 1..n |-> [src |-> src, i |-> i]]

Range(s) == {s[i] : i \in DOMAIN s}

\* ------------------------------------------------------------ state
VARIABLES
    env,                    \* the host, the configuration and what the collaborators answer
    now,                    \* time.time()
    run_count,              \* self.run_count
    continue_running,       \* self.continue_running
    emit_duration,          \* self.emit_duration: <<>> is None, <<d>> a measured duration
    metadata_cache,         \* self.metadata_cache: <<>> is None, <<m>> a metadata dict
    metadata_start,         \* self.metadata_start
    initialized_checks_d,   \* self.initialized_checks_d
    init_failed_checks_d,   \* self.init_failed_checks_d: a list at construction, then a dict
    stop_requested,         \* the checks.d checks whose stop() has been called
    last_emit_run,          \* history: the last cycle that returned from _emit, 0 if none
    pc,                     \* position of run(): "idle" between calls
    idx,                    \* index of the loop run() or _emit() is in
    payload,                \* the payload of the current cycle
    check_statuses,         \* check_statuses of run()
    emitter_statuses,       \* statuses of _emit()
    invoked,                \* history: the checks invoked in this cycle
    raised,                 \* history: the checks whose invocation raised in this cycle
    emitted,                \* history: the emitters invoked in this cycle, in order
    persisted,              \* history: the arguments of CollectorStatus(...).persist()
    meta_computed,          \* history: _get_metadata() was called in this cycle
    stop_at,                \* history: where this cycle was when stop() first took effect
    self_metrics_args,      \* history: what run() handed to self._agent_metrics.check
    start_event,            \* history: the start_event argument of this call of run()
    produced,               \* history: the events produced in this cycle, [key, items] in order
    outcome                 \* history: how this call of run() ended

collector == <<run_count, continue_running, emit_duration, metadata_cache, metadata_start,
               initialized_checks_d, init_failed_checks_d, stop_requested, last_emit_run>>
cycle == <<pc, idx, payload, check_statuses, emitter_statuses>>
history == <<invoked, raised, emitted, persisted, meta_computed, stop_at,
            self_metrics_args, start_event, produced, outcome>>
vars == <<env, now, collector, cycle, history>>

\* ------------------------------------------------------------ _build_payload
\* the value self.init_failed_checks_d has after __init__: a list, which has no iteritems
EmptyList == [is_dict |-> FALSE, d |-> EmptyDict]
AsDict(d) == [is_dict |-> TRUE, d |-> d]

\* _is_first_run comparing with 2: the second run is a first run too
IsFirstRun_FirstTwo(rc) == rc <= 2

\* _is_first_run comparing with 0: no run is the first
IsFirstRun_OffByOne(rc) == rc <= 0
\* _is_first_run
IsFirstRun(rc) == rc <= 1

\* _should_send_metadata with the difference reversed
ShouldSendMetadata_Reversed(t, start, interval) == start - t >= interval
\* _should_send_metadata without its test
ShouldSendMetadata_Always(t, start, interval) == TRUE
\* the test of _should_send_metadata
ShouldSendMetadata(t, start, interval) == t - start >= interval

\* what EC2.get_metadata() and the socket calls may answer
MetadataSources ==
    { [ec2 |-> [hostname |-> "ip-10-0-0-1"], socket_ok |-> TRUE],
      [ec2 |-> EmptyDict, socket_ok |-> FALSE] }

\* agentConfig.get('hostname'): not configured
ConfigHostname == None

\* _get_metadata
GetMetadata(src) ==
    LET m0 == src.ec2
        m1 == IF Get(m0, "hostname") /= None
              THEN Del(Put(m0, "ec2-hostname", m0["hostname"]), "hostname")
              ELSE m0
        m2 == IF ConfigHostname /= None
              THEN Put(m1, "agent-hostname", ConfigHostname)
              ELSE IF src.socket_ok THEN Put(m1, "socket-hostname", "localhost") ELSE m1
        m3 == IF src.socket_ok THEN Put(m2, "socket-fqdn", "localhost.localdomain") ELSE m2
    IN  Put(m3, "hostname", "host")

StartupEvent(t) == [src |-> "Agent Startup", i |-> t]

\* the dictionary _build_payload starts from
BasePayload(t) ==
    [collection_timestamp |-> t, os |-> env.os, python |-> "2.7", agentVersion |-> "3.x",
     apiKey |-> "api_key", events |-> EmptyDict, metrics |-> <<>>, resources |-> EmptyDict,
     internalHostname |-> "host", uuid |-> "uuid"]

\* _build_payload: [payload, cache, start, computed] for a call at time t
BuildPayload(rc, startEvent, t, cache, start, src) ==
    LET p0 == BasePayload(t)
        p1 == IF startEvent /\ IsFirstRun(rc)
              THEN [Put(p0, "systemStats", "config.system_stats")
                        EXCEPT !["events"] = Put(@, "System", <<StartupEvent(t)>>)]
              ELSE p0
        first == IsFirstRun(rc)
        elapsed == ~first /\ ShouldSendMetadata(t, start, metadata_interval)
        send == first \/ elapsed
        meta == GetMetadata(src)
        p2 == IF send
              THEN Put(Put(p1, "systemStats", "get_system_stats()"), "meta", meta)
              ELSE p1
        p3 == IF send /\ env.tags /= None THEN Put(p2, "tags", env.tags) ELSE p2
    IN  [payload |-> p3,
         cache |-> IF send THEN <<meta>> ELSE cache,
         start |-> IF elapsed THEN t ELSE start,
         computed |-> send]

\* ------------------------------------------------------------ the check groups of run()
\* A group works on st = [p: the payload, inv: the checks invoked, rsd: the checks
\* that raised, prod: the events produced, ok: FALSE once an exception is on its way
\* out of run()], and on e, what the collaborators answer.

\* the order run() calls self._unix_system_checks in
UnixOrder == <<"disk", "load", "memory", "io", "processes", "cpu">>
\* the order run() calls self._win32_system_checks in
Win32Order == <<"disk", "memory", "cpu", "network", "io", "proc">>

MemoryKeys ==
    [memPhysUsed |-> "physUsed", memPhysPctUsable |-> "physPctUsable",
     memPhysFree |-> "physFree", memPhysTotal |-> "physTotal",
     memPhysUsable |-> "physUsable", memSwapUsed |-> "swapUsed",
     memSwapFree |-> "swapFree", memSwapPctFree |-> "swapPctFree",
     memSwapTotal |-> "swapTotal", memCached |-> "physCached",
     memBuffers |-> "physBuffers", memShared |-> "physShared"]

\* the Unix system checks answer everything
UnixData ==
    [disk |-> <<"usage", "inodes">>, load |-> [system_load_1 |-> "0.5"],
     memory |-> [physUsed |-> "1", physFree |-> "2"], io |-> [sda |-> "io"],
     processes |-> "ps", cpu |-> [cpuUser |-> "3"]]
\* the Unix system checks answer nothing
UnixNothing ==
    [disk |-> <<>>, load |-> EmptyDict, memory |-> EmptyDict, io |-> EmptyDict,
     processes |-> "ps", cpu |-> EmptyDict]

\* the part of run() that follows one Unix system check that answered v
UnixStep(p, name, v) ==
    CASE name = "disk" -> IF Len(v) = 2 THEN Put(Put(p, "diskUsage", v[1]), "inodes", v[2])
                          ELSE p
      [] name = "load" -> Update(p, v)
      [] name = "memory" -> IF DOMAIN v /= {}
                            THEN Update(p, [k \in DOMAIN MemoryKeys |-> Get(v, MemoryKeys[k])])
                            ELSE p
      [] name = "io" -> IF DOMAIN v /= {} THEN Put(p, "ioStats", v) ELSE p
      [] name = "processes" -> Update(p, [processes |-> v])
      [] name = "cpu" -> IF DOMAIN v /= {} THEN Update(p, v) ELSE p

RECURSIVE UnixApply(_, _, _)
\* the payload after the first n Unix system checks
UnixApply(p, r, n) ==
    IF n = 0 THEN p ELSE UnixStep(UnixApply(p, r, n - 1), UnixOrder[n], r[UnixOrder[n]])

RECURSIVE Win32Apply(_, _)
\* metrics after the first n Windows system checks: metrics.extend(check(...))
Win32Apply(m, n) ==
    IF n = 0 THEN m ELSE Win32Apply(m, n - 1) \o Items(Win32Order[n], MaxItems)

\* whether run() has an except clause around the Windows system checks
Win32Caught == TRUE
\* whether run() has one around the Unix system checks, the old-style checks,
\* the event checks, the resource checks and the custom metric checks
UnixCaught == FALSE
LegacyCaught == FALSE
EventCaught == FALSE
ResourceCaught == FALSE
MetricsCaught == FALSE

\* lines 136-187: e.sys_raise is the position of the system check that raises, 0 for none
SystemGroup(st, e) ==
    LET k == e.sys_raise
        done == IF k = 0 THEN 6 ELSE k - 1
        called == IF k = 0 THEN 6 ELSE k
        order == IF e.os = "windows" THEN Win32Order ELSE UnixOrder
    IN  [p |-> IF e.os = "windows"
               THEN [st.p EXCEPT !["metrics"] = Win32Apply(@, done)]
               ELSE UnixApply(st.p, e.unix, done),
         inv |-> st.inv \cup {<<"system", order[i]>> : i \in 1..called},
         rsd |-> IF k = 0 THEN st.rsd ELSE st.rsd \cup {<<"system", order[k]>>},
         prod |-> st.prod,
         ok |-> k = 0 \/ (IF e.os = "windows" THEN Win32Caught ELSE UnixCaught)]

\* events[key] gets items: appended when the key is there, stored otherwise
ExtendOrCreate(ev, key, items) ==
    IF key \in DOMAIN ev THEN [ev EXCEPT ![key] = @ \o items] ELSE Put(ev, key, items)

LegacyOrder == <<"ganglia", "dogstream", "ddforwarder">>
LegacyPos(name) == CHOOSE i \in 1..3 : LegacyOrder[i] = name

\* lines 197-207: the answer d of the dogstream check
MergeDogstream(p, d) ==
    IF DOMAIN d = {} THEN p
    ELSE LET hasEvents == "dogstreamEvents" \in DOMAIN d /\ Len(d["dogstreamEvents"]) > 0
             p1 == IF hasEvents
                   THEN [p EXCEPT !["events"] =
                            ExtendOrCreate(@, "dogstream", d["dogstreamEvents"])]
                   ELSE p
             d1 == IF hasEvents THEN Del(d, "dogstreamEvents") ELSE d
         IN  Update(p1, d1)

\* the events the dogstream check answered with
DogstreamEvents(d) ==
    IF "dogstreamEvents" \in DOMAIN d THEN d["dogstreamEvents"] ELSE <<>>

\* history: items were produced for events[key]
Produce(prod, key, items) ==
    IF Len(items) > 0 THEN Append(prod, [key |-> key, items |-> items]) ELSE prod

\* lines 189-211: ganglia, dogstream and the forwarder's metrics
LegacyGroup(st, e) ==
    IF ~st.ok THEN st
    ELSE IF e.legacy_raise /= "none"
    THEN [st EXCEPT !.inv = @ \cup {<<"legacy", LegacyOrder[i]>> :
                                        i \in 1..LegacyPos(e.legacy_raise)},
                    !.rsd = @ \cup {<<"legacy", e.legacy_raise>>},
                    !.ok = LegacyCaught]
    ELSE LET p1 == IF e.ganglia /= "False" /\ e.ganglia /= None
                   THEN Put(st.p, "ganglia", e.ganglia) ELSE st.p
             p2 == MergeDogstream(p1, e.dogstream)
             p3 == IF DOMAIN e.ddforwarder /= {} THEN Put(p2, "datadog", e.ddforwarder) ELSE p2
         IN  [st EXCEPT !.p = p3,
                        !.inv = @ \cup {<<"legacy", LegacyOrder[i]>> : i \in 1..3},
                        !.prod = Produce(@, "dogstream", DogstreamEvents(e.dogstream))]

\* line 217: events[event_check.key] = event_data
StoreEventData(ev, key, data) == Put(ev, key, data)

\* lines 213-217: the event checks (one is configured, Nagios)
EventGroup(st, e) ==
    IF ~st.ok THEN st
    ELSE IF e.event_raise
    THEN [st EXCEPT !.inv = @ \cup {<<"event", e.event_key>>},
                    !.rsd = @ \cup {<<"event", e.event_key>>},
                    !.ok = EventCaught]
    ELSE [st EXCEPT !.inv = @ \cup {<<"event", e.event_key>>},
                    !.prod = Produce(@, e.event_key, e.event_data),
                    !.p = IF Len(e.event_data) > 0
                          THEN [@ EXCEPT !["events"] =
                                   StoreEventData(@, e.event_key, e.event_data)]
                          ELSE @]

\* RESOURCE_KEY of the resource check run() is constructed with (ResProcesses)
ResourceKey == "processes"

\* lines 234-238 without the test of has_resource
ResourcesWithMeta_Always(res, has_resource, p) ==
    Put(res, "meta", [api_key |-> p["apiKey"], host |-> p["internalHostname"]])
\* lines 234-238: the shared meta entry
ResourcesWithMeta(res, has_resource, p) ==
    IF has_resource
    THEN Put(res, "meta", [api_key |-> p["apiKey"], host |-> p["internalHostname"]])
    ELSE res

\* lines 227-231: the entry of a check that returned snapshots
ResourceValue(snaps, version, description) ==
    LET v == [snaps |-> snaps, format_version |-> version]
    IN  IF description /= None THEN Put(v, "format_description", description) ELSE v

\* lines 219-238: the resource checks, on a host that is not Windows.  e.resource_raise
\* names the call that raises: "check", "describe" (describe_format_if_needed) or "none"
ResourceGroup(st, e) ==
    IF ~st.ok \/ e.os = "windows" THEN st
    ELSE LET id == <<"resource", ResourceKey>>
             snaps == Items("snapshot", e.snaps)
             has_resource == Len(snaps) > 0
         IN  IF e.resource_raise = "check" \/ (e.resource_raise = "describe" /\ has_resource)
             THEN [st EXCEPT !.inv = @ \cup {id}, !.rsd = @ \cup {id}, !.ok = ResourceCaught]
             ELSE LET res1 == IF has_resource
                              THEN Put(st.p["resources"], ResourceKey,
                                       ResourceValue(snaps, 1, e.format_description))
                              ELSE st.p["resources"]
                  IN  [st EXCEPT !.inv = @ \cup {id},
                                 !.p = [@ EXCEPT !["resources"] =
                                           ResourcesWithMeta(res1, has_resource, st.p)]]

\* lines 240-244: the custom metric checks (one is configured)
MetricsGroup(st, e) ==
    IF ~st.ok THEN st
    ELSE LET id == <<"metrics", "custom">>
         IN  IF e.custom_raise
             THEN [st EXCEPT !.inv = @ \cup {id}, !.rsd = @ \cup {id}, !.ok = MetricsCaught]
             ELSE [st EXCEPT !.inv = @ \cup {id},
                             !.p = [@ EXCEPT !["metrics"] = @ \o Items("custom", e.custom)]]

\* ------------------------------------------------------------ checks.d checks
\* what checks.d check number i does when run: a.fails names the call that raises
CheckAnswer(e, name, i) ==
    [fails |-> IF e.check_fail.i = i THEN e.check_fail.how ELSE "none",
     instance_statuses |-> <<"OK">>,
     metrics |-> Items(name, MaxItems),
     events |-> Items(name, e.check_events)]

\* CheckStatus(check.name, instance_statuses, metric_count, event_count)
CheckStatus(name, instance_statuses, metric_count, event_count) ==
    [name |-> name, instance_statuses |-> instance_statuses,
     metric_count |-> metric_count, event_count |-> event_count]

\* line 282 without its traceback argument
InitFailedStatus_NoTraceback(name, info) ==
    [name |-> name, init_failed_error |-> info.error, init_failed_traceback |-> None]

\* CheckStatus(check_name, None, None, None, init_failed_error=, init_failed_traceback=)
InitFailedStatus(name, info) ==
    [name |-> name, init_failed_error |-> info.error,
     init_failed_traceback |-> info.traceback]

\* lines 252-277 with the counts taken whether or not the check raised
RunCheck_StaleCounts(p, name, a) ==
    [p |-> p, status |-> CheckStatus(name, <<>>, Len(a.metrics), Len(a.events))]
\* lines 252-277: one checks.d check; [p: the payload, status: its CheckStatus]
RunCheck(p, name, a) ==
    IF a.fails = "run"
    THEN [p |-> p, status |-> CheckStatus(name, <<>>, 0, 0)]
    ELSE IF a.fails \in {"get_metrics", "get_events"}
    THEN [p |-> p, status |-> CheckStatus(name, a.instance_statuses, 0, 0)]
    ELSE LET p1 == [p EXCEPT !["metrics"] = @ \o a.metrics]
             p2 == IF Len(a.events) > 0
                   THEN [p1 EXCEPT !["events"] = ExtendOrCreate(@, name, a.events)]
                   ELSE p1
         IN  [p |-> p2,
              status |-> CheckStatus(name, a.instance_statuses, Len(a.metrics), Len(a.events))]

\* line 249: if not self.continue_running: return
StopAtCheck(cr) == ~cr
\* line 280: if not self.continue_running: return
StopAtInitFailed(cr) == ~cr
\* _emit without the test of line 326
StopAtEmitter_Never(cr) == FALSE
\* _emit with the test of line 326 negated
StopAtEmitter_Inverted(cr) == cr
\* line 326: if not self.continue_running: return statuses
StopAtEmitter(cr) == ~cr

\* _emit without line 334: the status of a raising emitter carries no error
EmitterStatus_NoError(name, failed) == [name |-> name, error |-> None]
\* EmitterStatus(name) or EmitterStatus(name, e)
EmitterStatus(name, failed) ==
    [name |-> name, error |-> IF failed THEN "Exception" ELSE None]

\* timer.step() after _emit: the duration measured in cycle rc; the model's clock
\* makes the durations of different cycles different
TimerStep(rc) == rc

\* ------------------------------------------------------------ the environment
\* the names of the checks.d checks handed to run()
CheckName(i) ==
    CASE i = 1 -> "dogstream" [] i = 2 -> "System" [] i = 3 -> "disk_extra" [] OTHER -> "check_n"

\* the names of the configured emitters
EmitterName(i) ==
    CASE i = 1 -> "http_emitter" [] i = 2 -> "emitter_2" [] OTHER -> "emitter_n"

\* self.emitters
emitters == [i \in 1..MaxEmitters |-> EmitterName(i)]

\* every collaborator answers with data and none raises
Busy(host) ==
    [os |-> host, tags |-> "env:prod", event_key |-> "dogstream",
     sys_raise |-> 0, unix |-> UnixData,
     ganglia |-> "xml",
     dogstream |-> [dogstream |-> "points", dogstreamEvents |-> Items("dogstream", MaxItems)],
     ddforwarder |-> [queue_size |-> "1"], legacy_raise |-> "none",
     event_data |-> Items("nagios", MaxItems), event_raise |-> FALSE,
     snaps |-> MaxItems, format_description |-> "description", resource_raise |-> "none",
     custom |-> MaxItems, custom_raise |-> FALSE,
     check_fail |-> [i |-> 0, how |-> "none"], check_events |-> MaxItems,
     emit_raises |-> {}, persist_raises |-> FALSE]

\* every collaborator answers with nothing
Quiet(host) ==
    [Busy(host) EXCEPT !.tags = None, !.event_key = "Nagios", !.unix = UnixNothing,
                       !.ganglia = None,
                       !.dogstream = [dogstream |-> "points", dogstreamEvents |-> <<>>],
                       !.ddforwarder = EmptyDict, !.event_data = <<>>, !.snaps = 0,
                       !.format_description = None, !.custom = 0, !.check_events = 0]

\* some do
Mixed(host) ==
    [Busy(host) EXCEPT !.event_key = "Nagios", !.ganglia = "False",
                       !.dogstream = [dogstream |-> "points"],
                       !.format_description = None]

\* one collaborator raises
Faults(host) ==
    { [Busy(host) EXCEPT !.sys_raise = k] : k \in {1, 4} }
    \cup { [Busy(host) EXCEPT !.legacy_raise = "dogstream"],
           [Busy(host) EXCEPT !.event_raise = TRUE],
           [Busy(host) EXCEPT !.resource_raise = "check"],
           [Busy(host) EXCEPT !.resource_raise = "describe"],
           [Busy(host) EXCEPT !.custom_raise = TRUE] }
    \cup { [Busy(host) EXCEPT !.check_fail = [i |-> 1, how |-> h]] :
              h \in {"run", "get_metrics", "get_events"} }
    \cup { [Busy(host) EXCEPT !.check_fail = [i |-> MaxChecks, how |-> "run"]] }
    \cup { [Busy(host) EXCEPT !.emit_raises = r] :
              r \in {{1}, {MaxEmitters}, 1..MaxEmitters} }
    \cup { [Busy(host) EXCEPT !.persist_raises = TRUE] }

\* the hosts, configurations and collaborators explored
Scenarios ==
    {Busy("linux"), Quiet("linux"), Mixed("linux"), Busy("windows"), Quiet("windows"),
     [Busy("linux") EXCEPT !.event_key = "Nagios"]}
    \cup Faults("linux")
    \cup { [Busy("windows") EXCEPT !.sys_raise = k] : k \in {1, 4} }

\* the values of the checksd argument of run(): None, or the two collections
NoChecksd == [given |-> FALSE]
ChecksdInputs ==
    {NoChecksd} \cup
    { [given |-> TRUE, initialized_checks |-> [i \in 1..n |-> CheckName(i)],
       init_failed_checks |-> f] :
        n \in {0, MaxChecks},
        f \in {EmptyDict, [bad_plugin |-> [error |-> "ImportError: x", traceback |-> "tb"]]} }

\* ------------------------------------------------------------ Collector
NoStop == [pc |-> "none", idx |-> 0, emitted |-> 0]

\* the state of run()'s locals between two calls
Returned ==
    /\ pc = "idle"
    /\ idx = 0
    /\ payload = EmptyDict
    /\ check_statuses = <<>>
    /\ emitter_statuses = <<>>
    /\ invoked = {}
    /\ raised = {}
    /\ emitted = <<>>
    /\ persisted = <<>>
    /\ meta_computed = FALSE
    /\ stop_at = NoStop
    /\ self_metrics_args = <<>>
    /\ start_event = FALSE
    /\ produced = <<>>
    /\ outcome = "none"

\* Collector.__init__
Init ==
    /\ env \in Scenarios
    /\ now = 0
    /\ run_count = 0
    /\ continue_running = TRUE
    /\ emit_duration = <<>>
    /\ metadata_cache = <<>>
    /\ metadata_start = 0
    /\ initialized_checks_d = <<>>
    /\ init_failed_checks_d = EmptyList
    /\ stop_requested = {}
    /\ last_emit_run = 0
    /\ Returned

\* time passes between two calls of run()
Tick ==
    /\ pc = "idle"
    /\ now < MaxTime
    /\ now' = now + 1
    /\ UNCHANGED <<env, collector, cycle, history>>

\* a stop() that flips the flag instead of clearing it
FlagAfterStop_Flipped(cr) == ~cr

\* stop(), line 116: self.continue_running = False
FlagAfterStop(cr) == FALSE

\* a stop() that leaves its loop after the first check
ChecksToStop_FirstOnly(checks) == IF checks = <<>> THEN {} ELSE {checks[1]}

\* stop(), lines 117-118: check.stop() for each check of self.initialized_checks_d
ChecksToStop(checks) == Range(checks)

\* Collector.stop
Stop ==
    /\ continue_running' = FlagAfterStop(continue_running)
    /\ stop_requested' = stop_requested \cup ChecksToStop(initialized_checks_d)
    /\ stop_at' = IF pc \notin {"idle", "done"} /\ stop_at = NoStop
                  THEN [pc |-> pc, idx |-> idx, emitted |-> Len(emitted)]
                  ELSE stop_at
    /\ UNCHANGED <<env, now, run_count, emit_duration, metadata_cache, metadata_start,
                   initialized_checks_d, init_failed_checks_d, last_emit_run, cycle,
                   invoked, raised, emitted, persisted, meta_computed,
                   self_metrics_args, start_event, produced, outcome>>

\* run() ends: it returns early ("stopped"), returns ("completed") or raises ("raised")
End(how) == pc' = "done" /\ outcome' = how

\* run(), lines 124-135: count the cycle, build the payload, take the checks
RunStart ==
    /\ pc = "idle"
    /\ run_count < MaxRuns
    /\ \E cd \in ChecksdInputs, se \in BOOLEAN, src \in MetadataSources :
          LET b == BuildPayload(run_count + 1, se, now, metadata_cache, metadata_start, src)
          IN  /\ run_count' = run_count + 1
              /\ payload' = b.payload
              /\ metadata_cache' = b.cache
              /\ metadata_start' = b.start
              /\ meta_computed' = b.computed
              /\ start_event' = se
              /\ produced' = IF "System" \in DOMAIN b.payload["events"]
                             THEN Produce(<<>>, "System", b.payload["events"]["System"])
                             ELSE <<>>
              /\ initialized_checks_d' =
                    IF cd.given THEN cd.initialized_checks ELSE initialized_checks_d
              /\ init_failed_checks_d' =
                    IF cd.given THEN AsDict(cd.init_failed_checks) ELSE init_failed_checks_d
    /\ pc' = "collect"
    /\ stop_at' = IF continue_running THEN NoStop
                  ELSE [pc |-> "before", idx |-> 0, emitted |-> 0]
    /\ outcome' = "running"
    /\ UNCHANGED <<env, now, continue_running, emit_duration, stop_requested,
                   last_emit_run, idx,
                   check_statuses, emitter_statuses, invoked, raised, emitted, persisted,
                   self_metrics_args>>

\* run(), lines 136-244: the system, old-style, event, resource and custom checks
Collect ==
    /\ pc = "collect"
    /\ LET s0 == [p |-> payload, inv |-> {}, rsd |-> {}, prod |-> produced, ok |-> TRUE]
           s5 == MetricsGroup(ResourceGroup(EventGroup(LegacyGroup(SystemGroup(s0, env),
                                                                    env), env), env), env)
       IN  /\ payload' = s5.p
           /\ invoked' = s5.inv
           /\ raised' = s5.rsd
           /\ produced' = s5.prod
           /\ IF s5.ok THEN pc' = "checksd" /\ idx' = 1 /\ outcome' = outcome
              ELSE End("raised") /\ idx' = idx
    /\ UNCHANGED <<env, now, collector, check_statuses, emitter_statuses, emitted, persisted,
                   meta_computed, stop_at, self_metrics_args, start_event>>

\* run(), lines 248-251: the head of the loop over self.initialized_checks_d
ChecksdNext ==
    /\ pc = "checksd"
    /\ IF idx > Len(initialized_checks_d)
       THEN pc' = "init_failed" /\ UNCHANGED <<invoked, outcome>>
       ELSE IF StopAtCheck(continue_running)
       THEN End("stopped") /\ UNCHANGED invoked
       ELSE /\ pc' = "in_check"
            /\ invoked' = invoked \cup {<<"checksd", idx>>}
            /\ UNCHANGED outcome
    /\ UNCHANGED <<env, now, collector, idx, payload, check_statuses, emitter_statuses,
                   raised, emitted, persisted, meta_computed, stop_at, self_metrics_args,
                   start_event, produced>>

\* run(), lines 252-277: the check runs, its data is merged, its CheckStatus is built
ChecksdEnd ==
    /\ pc = "in_check"
    /\ LET name == initialized_checks_d[idx]
           a == CheckAnswer(env, name, idx)
           r == RunCheck(payload, name, a)
       IN  /\ payload' = r.p
           /\ check_statuses' = Append(check_statuses, r.status)
           /\ raised' = IF a.fails /= "none" THEN raised \cup {<<"checksd", idx>>} ELSE raised
           /\ produced' = IF a.fails = "none" THEN Produce(produced, name, a.events)
                          ELSE produced
    /\ idx' = idx + 1
    /\ pc' = "checksd"
    /\ UNCHANGED <<env, now, collector, emitter_statuses, invoked, emitted, persisted,
                   meta_computed, stop_at, self_metrics_args, start_event, outcome>>

\* the checks of self.init_failed_checks_d that have their CheckStatus
InitFailedDone ==
    {check_statuses[i].name : i \in (Len(initialized_checks_d) + 1)..Len(check_statuses)}

\* run(), lines 279-285: the loop over self.init_failed_checks_d.iteritems()
InitFailed ==
    /\ pc = "init_failed"
    /\ IF ~init_failed_checks_d.is_dict
       THEN End("raised") /\ UNCHANGED check_statuses
       ELSE IF DOMAIN init_failed_checks_d.d \subseteq InitFailedDone
       THEN pc' = "self_metrics" /\ UNCHANGED <<check_statuses, outcome>>
       ELSE IF StopAtInitFailed(continue_running)
       THEN End("stopped") /\ UNCHANGED check_statuses
       ELSE /\ \E name \in DOMAIN init_failed_checks_d.d \ InitFailedDone :
                 check_statuses' = Append(check_statuses,
                                          InitFailedStatus(name, init_failed_checks_d.d[name]))
            /\ UNCHANGED <<pc, outcome>>
    /\ UNCHANGED <<env, now, collector, idx, payload, emitter_statuses, invoked, raised,
                   emitted, persisted, meta_computed, stop_at, self_metrics_args,
                   start_event, produced>>

\* what self._agent_metrics.check answers
AgentMetrics(args) == Items("datadog.agent.collector", MaxItems)

\* lines 294-298 without the emit_duration argument
EmitDurationArgument_Dropped(ed) == <<>>

\* lines 294-298: self.emit_duration is handed to self._agent_metrics.check
EmitDurationArgument(ed) == ed

\* run(), lines 288-298: the collector's own metrics join the payload
SelfMetrics ==
    /\ pc = "self_metrics"
    /\ LET args == [emit_duration |-> EmitDurationArgument(emit_duration),
                    cpu_time |-> env.os /= "windows"]
       IN  /\ self_metrics_args' = <<args>>
           /\ payload' = [payload EXCEPT !["metrics"] = @ \o AgentMetrics(args)]
    /\ pc' = "emit"
    /\ idx' = 1
    /\ UNCHANGED <<env, now, collector, check_statuses, emitter_statuses, invoked, raised,
                   emitted, persisted, meta_computed, stop_at, start_event, produced,
                   outcome>>

\* _emit, lines 324-329: the head of the loop over self.emitters; when the loop ends
\* or stops, _emit returns and run() measures the emit duration (line 302)
EmitNext ==
    /\ pc = "emit"
    /\ IF idx > Len(emitters) \/ StopAtEmitter(continue_running)
       THEN /\ pc' = "persist"
            /\ emit_duration' = <<TimerStep(run_count)>>
            /\ last_emit_run' = run_count
            /\ UNCHANGED emitted
       ELSE /\ pc' = "in_emit"
            /\ emitted' = Append(emitted, emitters[idx])
            /\ UNCHANGED <<emit_duration, last_emit_run>>
    /\ UNCHANGED <<env, now, run_count, continue_running, metadata_cache, metadata_start,
                   initialized_checks_d, init_failed_checks_d, stop_requested, idx, payload,
                   check_statuses, emitter_statuses, invoked, raised, persisted,
                   meta_computed, stop_at, self_metrics_args, start_event, produced,
                   outcome>>

\* _emit, lines 330-335: the emitter returns or raises, its EmitterStatus is appended
EmitEnd ==
    /\ pc = "in_emit"
    /\ emitter_statuses' =
          Append(emitter_statuses, EmitterStatus(emitters[idx], idx \in env.emit_raises))
    /\ idx' = idx + 1
    /\ pc' = "emit"
    /\ UNCHANGED <<env, now, collector, payload, check_statuses, invoked, raised, emitted,
                   persisted, meta_computed, stop_at, self_metrics_args, start_event,
                   produced, outcome>>

\* run() without the try of line 305: an exception of persist() leaves run()
PersistOutcome_Uncaught(raises) == IF raises THEN "raised" ELSE "completed"

\* run(), lines 305-308: an exception of persist() is caught and logged, run()
\* goes on to its last log line and returns
PersistOutcome(raises) == "completed"

\* run(), lines 304-318: the status of the run is persisted; an exception of
\* persist() is caught and logged
Persist ==
    /\ pc = "persist"
    /\ persisted' = <<[check_statuses |-> check_statuses,
                       emitter_statuses |-> emitter_statuses,
                       metadata_cache |-> metadata_cache,
                       raised |-> env.persist_raises]>>
    /\ End(PersistOutcome(env.persist_raises))
    /\ UNCHANGED <<env, now, collector, idx, payload, check_statuses, emitter_statuses,
                   invoked, raised, emitted, meta_computed, stop_at, self_metrics_args,
                   start_event, produced>>

\* run() is back in its caller
Return ==
    /\ pc = "done"
    /\ pc' = "idle"
    /\ idx' = 0
    /\ payload' = EmptyDict
    /\ check_statuses' = <<>>
    /\ emitter_statuses' = <<>>
    /\ invoked' = {}
    /\ raised' = {}
    /\ emitted' = <<>>
    /\ persisted' = <<>>
    /\ meta_computed' = FALSE
    /\ stop_at' = NoStop
    /\ self_metrics_args' = <<>>
    /\ start_event' = FALSE
    /\ produced' = <<>>
    /\ outcome' = "none"
    /\ UNCHANGED <<env, now, collector>>

Next ==
    \/ Tick
    \/ Stop
    \/ RunStart
    \/ Collect
    \/ ChecksdNext
    \/ ChecksdEnd
    \/ InitFailed
    \/ SelfMetrics
    \/ EmitNext
    \/ EmitEnd
    \/ Persist
    \/ Return

Spec == Init /\ [][Next]_vars

\* ------------------------------------------------------------ properties
\* the checks run() calls before the checks.d checks, on this host
ChecksBeforeChecksd ==
    {<<"system", (IF env.os = "windows" THEN Win32Order ELSE UnixOrder)[i]>> : i \in 1..6}
    \cup {<<"legacy", LegacyOrder[i]>> : i \in 1..3}
    \cup {<<"event", env.event_key>>}
    \cup (IF env.os = "windows" THEN {} ELSE {<<"resource", ResourceKey>>})
    \cup {<<"metrics", "custom">>}

\* run() is past lines 136-244
PastCollect == pc \in {"checksd", "in_check", "init_failed", "self_metrics", "emit", "in_emit",
                       "persist"}

\* run() is past the loop over the checks.d checks
PastChecksd == pc \in {"init_failed", "self_metrics", "emit", "in_emit", "persist"}

\* the checks of the five groups before the checks.d checks that raised
RaisedBeforeChecksd == {id \in raised : id[1] /= "checksd"}

\* C1 as claimed: an error raised by a check of any group is caught in run(): run()
\* does not end by raising it, and the checks later in the order still run
C1_EveryCheckIsolated ==
    /\ (RaisedBeforeChecksd /= {} => outcome /= "raised")
    /\ (PastCollect => ChecksBeforeChecksd \subseteq invoked)

\* C2: a checks.d check whose run() raises has a CheckStatus with metric_count 0 and
\* event_count 0, and, when stop() is not called, the checks after it are invoked
\* and have their CheckStatus once the loop is over
C2_RaisingCheckIsolated ==
    \A i \in 1..Len(initialized_checks_d) :
        (<<"checksd", i>> \in raised /\ env.check_fail.how = "run") =>
            /\ i <= Len(check_statuses)
            /\ check_statuses[i].name = initialized_checks_d[i]
            /\ check_statuses[i].metric_count = 0
            /\ check_statuses[i].event_count = 0
            /\ (PastChecksd /\ continue_running) =>
                  \A j \in (i + 1)..Len(initialized_checks_d) :
                      /\ <<"checksd", j>> \in invoked
                      /\ j <= Len(check_statuses)
                      /\ check_statuses[j].name = initialized_checks_d[j]

\* C2's case: the first check raised in run(), stop() was not called, the loop is over
C2_Witness ==
    /\ pc = "init_failed"
    /\ continue_running
    /\ env.check_fail = [i |-> 1, how |-> "run"]
    /\ <<"checksd", 1>> \in raised
    /\ Len(check_statuses) = MaxChecks
    /\ MaxChecks > 1

\* stop() first took effect in this cycle while the checks.d checks were iterated:
\* at the head of the loop before a check, or during the run of a check
StoppedInChecksd ==
    \/ stop_at.pc = "in_check"
    \/ stop_at.pc = "checksd" /\ stop_at.idx <= Len(initialized_checks_d)

\* C3: when stop() is called while the checks.d checks are iterated, no emitter is
\* invoked in that cycle
C3_StopInChecksdNoEmitter == StoppedInChecksd => emitted = <<>>

\* C3's case: stop() came during the run of the last check, no check failed to
\* initialize, and _emit has returned
C3_Witness ==
    /\ stop_at.pc = "in_check"
    /\ stop_at.idx = Len(initialized_checks_d)
    /\ init_failed_checks_d.is_dict
    /\ DOMAIN init_failed_checks_d.d = {}
    /\ pc = "persist"
    /\ emitted = <<>>

\* stop() first took effect during this call of run(), when fewer emitters than are
\* configured had been started
StoppedBeforeLastEmitter ==
    /\ stop_at.pc \notin {"none", "before"}
    /\ stop_at.emitted < Len(emitters)

\* C4 as claimed: a call of run() during which stop() takes effect before the last
\* emitter is started starts no emitter after the stop and does not persist a status
C4_TruncatedCycleNotPersisted ==
    StoppedBeforeLastEmitter => (Len(emitted) = stop_at.emitted /\ persisted = <<>>)

\* C5: in a cycle with no stop request, when _emit has returned every emitter has been
\* invoked once, in the configured order, there is one EmitterStatus per emitter in
\* that order, and a status carries an error exactly when its emitter raised
C5_EveryEmitterAttempted ==
    (pc = "persist" /\ continue_running) =>
        /\ emitted = emitters
        /\ Len(emitter_statuses) = Len(emitters)
        /\ \A i \in 1..Len(emitters) :
              /\ emitter_statuses[i].name = emitters[i]
              /\ (emitter_statuses[i].error /= None) <=> (i \in env.emit_raises)

\* C5's case: the first emitter raised, no stop was requested, _emit has returned
C5_Witness ==
    /\ pc = "persist"
    /\ continue_running
    /\ env.emit_raises = {1}
    /\ Len(emitter_statuses) = MaxEmitters
    /\ emitter_statuses[1].error /= None

\* stop() first took effect during the dispatch, after k emitters had been attempted
StoppedInEmit(k) ==
    /\ stop_at.pc \in {"emit", "in_emit"}
    /\ stop_at.emitted = k

\* C6: when stop() takes effect during the dispatch after k emitters were attempted,
\* k less than the number of emitters, no further emitter is started, none is
\* attempted twice, and _emit returns the k statuses of those emitters, in order
C6_StopDuringDispatch ==
    \A k \in 0..(Len(emitters) - 1) :
        StoppedInEmit(k) =>
            /\ emitted = SubSeq(emitters, 1, k)
            /\ Len(emitter_statuses) <= k
            /\ pc \in {"persist", "done"} =>
                  /\ Len(emitter_statuses) = k
                  /\ \A i \in 1..k : emitter_statuses[i].name = emitters[i]

\* C6's case: stop() came while the first of several emitters was running, and _emit
\* has returned
C6_Witness ==
    /\ stop_at.pc = "in_emit"
    /\ stop_at.emitted = 1
    /\ Len(emitters) > 1
    /\ pc = "persist"
    /\ Len(emitter_statuses) = 1

RECURSIVE Concatenated(_, _)
\* events when every production of prod is appended under its key
Concatenated(prod, n) ==
    IF n = 0 THEN EmptyDict
    ELSE ExtendOrCreate(Concatenated(prod, n - 1), prod[n].key, prod[n].items)

\* C7 as claimed: under every key of payload.events is the concatenation of what the
\* cycle's producers produced for that key, the earlier producer first
C7_EventsConcatenated ==
    pc \notin {"idle", "done"} => payload["events"] = Concatenated(produced, Len(produced))

\* pop_snapshots() of the resource check returned at least one snapshot in this cycle
SnapshotsReturned ==
    /\ <<"resource", ResourceKey>> \in invoked
    /\ env.resource_raise /= "check"
    /\ env.snaps > 0

\* C8: once the resource checks are over, resources has the meta entry (api_key, host)
\* exactly when the resource check returned a snapshot, and then the check has its
\* entry under its key, with its snapshots and version, and with a
\* format_description exactly when the check returned a description
C8_ResourcesMeta ==
    PastCollect =>
        LET res == payload["resources"]
        IN  /\ ("meta" \in DOMAIN res) <=> SnapshotsReturned
            /\ "meta" \in DOMAIN res =>
                  res["meta"] = [api_key |-> payload["apiKey"],
                                 host |-> payload["internalHostname"]]
            /\ (ResourceKey \in DOMAIN res) <=> SnapshotsReturned
            /\ SnapshotsReturned =>
                  /\ res[ResourceKey]["snaps"] = Items("snapshot", env.snaps)
                  /\ ("format_description" \in DOMAIN res[ResourceKey])
                        <=> (env.format_description /= None)

\* C8's case: the check returned snapshots and no description
C8_Witness ==
    /\ pc = "checksd"
    /\ SnapshotsReturned
    /\ env.format_description = None
    /\ "meta" \in DOMAIN payload["resources"]
    /\ "format_description" \notin DOMAIN payload["resources"][ResourceKey]

\* C9: the payload built by the first call of run() has meta, which is also the
\* metadata cache, whether or not a startup event was requested, and has systemStats
\* and the "Agent Startup" event under events["System"] when one was
C9_FirstCyclePayload ==
    (run_count = 1 /\ pc = "collect") =>
        /\ "meta" \in DOMAIN payload
        /\ metadata_cache = <<payload["meta"]>>
        /\ start_event =>
              /\ "systemStats" \in DOMAIN payload
              /\ "System" \in DOMAIN payload["events"]
              /\ \E i \in 1..Len(payload["events"]["System"]) :
                    payload["events"]["System"][i].src = "Agent Startup"

\* C9's case: the first payload, a startup event requested
C9_Witness ==
    /\ run_count = 1
    /\ pc = "collect"
    /\ start_event
    /\ "System" \in DOMAIN payload["events"]
    /\ "meta" \in DOMAIN payload

\* C10: a call of run() that is not the first and starts when more than the metadata
\* interval has passed since self.metadata_start computes the metadata, puts it in
\* the payload as meta and in the metadata cache
C10_MetadataAfterInterval ==
    [][(RunStart /\ run_count >= 1 /\ now - metadata_start > metadata_interval) =>
          (/\ meta_computed'
           /\ "meta" \in DOMAIN payload'
           /\ metadata_cache' = <<payload'["meta"]>>
           /\ metadata_start' = now)]_vars

\* C10's case: the second call of run(), started after the interval has passed
C10_Witness ==
    /\ run_count = 2
    /\ pc = "collect"
    /\ now > metadata_interval
    /\ metadata_start = now
    /\ meta_computed
    /\ metadata_cache = <<payload["meta"]>>

\* C11: when persist() raises, run() returns normally, and what the Collector keeps
\* for the next cycle (run count, emit duration, metadata cache, stop flag) is what
\* it was before persist() was called, as it is when persist() succeeds
C11_PersistFailureContained ==
    [][Persist =>
          (/\ outcome' = "completed"
           /\ pc' = "done"
           /\ run_count' = run_count
           /\ emit_duration' = <<TimerStep(run_count)>>
           /\ metadata_cache' = metadata_cache
           /\ continue_running' = continue_running)]_vars

\* C11's case: persist() raised and run() has returned
C11_Witness ==
    /\ pc = "done"
    /\ persisted /= <<>>
    /\ persisted[1].raised
    /\ outcome = "completed"
    /\ emit_duration = <<TimerStep(run_count)>>

\* C12: the check statuses handed to CollectorStatus are one CheckStatus per check of
\* self.initialized_checks_d, in order and whatever the check did, then one per check
\* of self.init_failed_checks_d with its error and traceback and without counts; their
\* number is the number of initialized checks plus the number of init-failed checks
C12_OneStatusPerCheck ==
    persisted /= <<>> =>
        LET cs == persisted[1].check_statuses
            n == Len(initialized_checks_d)
            f == init_failed_checks_d.d
        IN  /\ init_failed_checks_d.is_dict
            /\ Len(cs) = n + Cardinality(DOMAIN f)
            /\ \A i \in 1..n :
                  /\ cs[i].name = initialized_checks_d[i]
                  /\ {"metric_count", "event_count"} \subseteq DOMAIN cs[i]
            /\ {cs[i].name : i \in (n + 1)..Len(cs)} = DOMAIN f
            /\ \A i \in (n + 1)..Len(cs) :
                  /\ cs[i].init_failed_error = f[cs[i].name].error
                  /\ cs[i].init_failed_traceback = f[cs[i].name].traceback
                  /\ DOMAIN cs[i] \cap {"metric_count", "event_count"} = {}

\* C12's case: a check that raised, a check that ran, a check that failed to load
C12_Witness ==
    /\ persisted /= <<>>
    /\ Len(persisted[1].check_statuses) = MaxChecks + 1
    /\ <<"checksd", 1>> \in raised
    /\ persisted[1].check_statuses[MaxChecks + 1].init_failed_error = "ImportError: x"

\* C13: continue_running is true when the Collector is constructed, is false after
\* stop(), and once false stays false whatever run() and stop() calls follow
C13_StopFlagLatch ==
    /\ continue_running = TRUE
    /\ [][(Stop \/ ~continue_running) => ~continue_running']_vars

\* C13's case: stop() was called, then run() was called and returned, then stop()
\* was called again
C13_Witness ==
    /\ ~continue_running
    /\ run_count = MaxRuns
    /\ stop_at = [pc |-> "before", idx |-> 0, emitted |-> 0]
    /\ pc = "done"

\* C14: stop() makes continue_running false and asks every check of
\* self.initialized_checks_d, the checks of the last run() that was given checks, to
\* stop; it calls no emitter and no persistence and leaves run_count, emit_duration,
\* metadata_cache and metadata_start as they were
C14_StopFrame ==
    [][Stop =>
          (/\ continue_running' = FALSE
           /\ stop_requested' = stop_requested \cup
                 {initialized_checks_d[i] : i \in 1..Len(initialized_checks_d)}
           /\ emitted' = emitted
           /\ emitter_statuses' = emitter_statuses
           /\ persisted' = persisted
           /\ run_count' = run_count
           /\ emit_duration' = emit_duration
           /\ metadata_cache' = metadata_cache
           /\ metadata_start' = metadata_start)]_vars

\* C14's case: stop() was called while an emitter was running, with MaxChecks checks
\* taken from the checksd argument
C14_Witness ==
    /\ ~continue_running
    /\ pc = "in_emit"
    /\ stop_at.pc = "in_emit"
    /\ stop_requested = {CheckName(i) : i \in 1..MaxChecks}
    /\ Len(emitted) = 1
    /\ persisted = <<>>

\* C15: a call of run() that computes the metadata, the first or one after the
\* interval, leaves self.metadata_start at the time of the call
C15_RecomputationResetsTimestamp ==
    (pc = "collect" /\ meta_computed) => metadata_start = now

\* a call of run() that does not compute the metadata: no meta, systemStats or tags
\* in its payload, self.metadata_cache and self.metadata_start as they were
MetadataLeftAlone ==
    /\ ~meta_computed'
    /\ DOMAIN payload' \cap {"meta", "systemStats", "tags"} = {}
    /\ metadata_cache' = metadata_cache
    /\ metadata_start' = metadata_start

\* C16: a call of run() that is not the first and starts when no more than the
\* metadata interval has passed since self.metadata_start (elapsed <= interval) does
\* not compute the metadata
C16_NoMetadataWithinInterval ==
    [][(RunStart /\ run_count >= 1 /\ now - metadata_start <= metadata_interval)
          => MetadataLeftAlone]_vars

\* C16, amended: a call of run() that is not the first and starts when less than the
\* metadata interval has passed since self.metadata_start (elapsed < interval) does
\* not compute the metadata
C16_NoMetadataBeforeInterval ==
    [][(RunStart /\ run_count >= 1 /\ now - metadata_start < metadata_interval)
          => MetadataLeftAlone]_vars

\* C16's case: the second call of run(), started before the interval has passed, on
\* a host with configured tags
C16_Witness ==
    /\ run_count = 2
    /\ pc = "collect"
    /\ now - metadata_start < metadata_interval
    /\ env.tags /= None
    /\ metadata_cache /= <<>>
    /\ ~meta_computed
    /\ DOMAIN payload \cap {"meta", "systemStats", "tags"} = {}

\* C17: a checks.d check that raises in run(), get_metrics() or get_events() gets a
\* CheckStatus with metric_count 0, event_count 0 and no instance statuses, and adds
\* nothing to the metrics and events of the payload
C17_FailedCheckProducedNothing ==
    [][(ChecksdEnd /\ CheckAnswer(env, initialized_checks_d[idx], idx).fails /= "none") =>
          LET status == check_statuses'[Len(check_statuses')]
          IN  /\ status.name = initialized_checks_d[idx]
              /\ status.metric_count = 0
              /\ status.event_count = 0
              /\ status.instance_statuses = <<>>
              /\ payload'["metrics"] = payload["metrics"]
              /\ payload'["events"] = payload["events"]]_vars

\* C18: when the dogstream check answers with a non-empty dictionary that has the
\* key dogstreamEvents, whatever the list under it, the payload after the merge has
\* no top-level dogstreamEvents, has the other keys of the answer at top level and
\* has the nested events under events["dogstream"]. The payload is read where run()
\* enters the checks.d loop; the nested events are compared when the event check
\* has not stored its own data under the same key since (C7)
C18_DogstreamEventsMerged ==
    (/\ pc = "checksd"
     /\ idx = 1
     /\ DOMAIN env.dogstream /= {}
     /\ "dogstreamEvents" \in DOMAIN env.dogstream) =>
        LET nested == env.dogstream["dogstreamEvents"]
        IN  /\ "dogstreamEvents" \notin DOMAIN payload
            /\ \A k \in DOMAIN env.dogstream \ {"dogstreamEvents"} :
                  k \in DOMAIN payload /\ payload[k] = env.dogstream[k]
            /\ (Len(nested) > 0 /\ ~(env.event_key = "dogstream" /\ env.event_data /= <<>>))
                  => /\ "dogstream" \in DOMAIN payload["events"]
                     /\ payload["events"]["dogstream"] = nested

\* C19: the emit duration handed to self._agent_metrics.check is None in the first
\* call of run() and, in every later call, the duration measured by the call just
\* before it, however the earlier calls ended
C19_PreviousEmitDuration ==
    self_metrics_args /= <<>> =>
        self_metrics_args[1].emit_duration =
            IF run_count = 1 THEN <<>> ELSE <<TimerStep(run_count - 1)>>

\* C19, amended: the emit duration handed to self._agent_metrics.check is the one
\* measured by the last earlier call of run() that returned from _emit, and None
\* when no earlier call did, as in the first call
C19_LastMeasuredEmitDuration ==
    pc \in {"emit", "in_emit"} =>
        /\ self_metrics_args /= <<>>
        /\ last_emit_run < run_count
        /\ self_metrics_args[1].emit_duration =
              IF last_emit_run = 0 THEN <<>> ELSE <<TimerStep(last_emit_run)>>

\* C19's case: the second call of run() reaches the self metrics after a first call
\* that went through _emit
C19_Witness ==
    /\ pc = "emit"
    /\ run_count = 2
    /\ last_emit_run = 1
    /\ self_metrics_args[1].emit_duration = <<TimerStep(1)>>

\* the payload has the "Agent Startup" event under events["System"]
HasStartupEvent(p) ==
    /\ "System" \in DOMAIN p["events"]
    /\ \E i \in 1..Len(p["events"]["System"]) : p["events"]["System"][i].src = "Agent Startup"

\* C20: self.run_count counts the calls of run() that have started, so only the first
\* call is a first run: its payload is built with the startup event exactly when one
\* is requested, and no later call has a startup event in its payload, however the
\* first call ended
C20_StartupEventOnlyInFirstRun ==
    pc /= "idle" =>
        /\ run_count >= 1
        /\ IsFirstRun(run_count) <=> run_count = 1
        /\ run_count > 1 => ~HasStartupEvent(payload)
        /\ pc = "collect" => (HasStartupEvent(payload) <=> (run_count = 1 /\ start_event))

\* C20's case: the second call of run() asks for a startup event after a first call
\* that never reached _emit
C20_Witness ==
    /\ run_count = 2
    /\ pc = "collect"
    /\ start_event
    /\ last_emit_run = 0
    /\ ~HasStartupEvent(payload)

====
